---- MODULE Spec2Model ----
(***************************************************************************)
(* Model of users/views/identity.py of takahe: the ActivityPub inbox       *)
(* endpoint (Inbox.post), which authenticates a signed HTTP request, and   *)
(* the identity activation view (ActivateIdentity.get).                    *)
(*                                                                         *)
(* Text is modelled as a sequence of tokens.  Every character the code     *)
(* treats specially (',', '=', '"', ' ', '-', '_', newline) is a token of  *)
(* its own, base64 text is one token per character, and the remaining      *)
(* words ("keyId", "rsa-sha256", "host", ...) are atomic tokens, so that   *)
(* str.split, str.strip, str.upper and str.join act on tokens exactly as   *)
(* they act on characters.                                                 *)
(***************************************************************************)
EXTENDS Integers, Sequences, FiniteSets, TLC

VARIABLES request, response, members, session, activation

vars == <<request, response, members, session, activation>>

(***************************************************************************)
(* Bounds of the model.                                                    *)
(***************************************************************************)
\* Longest list of covered header names a signature header declares.
MaxCovered == 2

(***************************************************************************)
(* Python str operations used by Inbox.post.                               *)
(***************************************************************************)
RECURSIVE IndexOf(_, _, _)
\* s.find(tok) from position i (1-based); 0 when tok does not occur.
IndexOf(s, tok, i) ==
    IF i > Len(s) THEN 0
    ELSE IF s[i] = tok THEN i
    ELSE IndexOf(s, tok, i + 1)

RECURSIVE Split(_, _)
\* s.split(sep): splits on EVERY occurrence of sep; always at least one piece.
Split(s, sep) ==
    LET i == IndexOf(s, sep, 1)
    IN  IF i = 0 THEN <<s>>
        ELSE <<SubSeq(s, 1, i - 1)>> \o Split(SubSeq(s, i + 1, Len(s)), sep)

\* s.split(sep, 1): at most one split, on the first occurrence of sep.
SplitOnce(s, sep) ==
    LET i == IndexOf(s, sep, 1)
    IN  IF i = 0 THEN <<s>>
        ELSE <<SubSeq(s, 1, i - 1), SubSeq(s, i + 1, Len(s))>>

RECURSIVE LStrip(_, _)
LStrip(s, tok) ==
    IF Len(s) > 0 /\ s[1] = tok THEN LStrip(Tail(s), tok) ELSE s

RECURSIVE RStrip(_, _)
RStrip(s, tok) ==
    IF Len(s) > 0 /\ s[Len(s)] = tok
    THEN RStrip(SubSeq(s, 1, Len(s) - 1), tok)
    ELSE s

\* s.strip(tok): removes every leading and trailing tok.
Strip(s, tok) == RStrip(LStrip(s, tok), tok)

RECURSIVE DropEmpty(_)
DropEmpty(parts) ==
    IF parts = <<>> THEN <<>>
    ELSE IF Head(parts) = <<>> THEN DropEmpty(Tail(parts))
    ELSE <<Head(parts)>> \o DropEmpty(Tail(parts))

\* s.split(): splits on runs of whitespace, no empty pieces.
SplitWhitespace(s) == DropEmpty(Split(s, " "))

RECURSIVE Join(_, _)
\* sep.join(parts)
Join(parts, sep) ==
    IF parts = <<>> THEN <<>>
    ELSE IF Len(parts) = 1 THEN parts[1]
    ELSE parts[1] \o sep \o Join(Tail(parts), sep)

\* str.upper() of one token.
UpperToken(t) ==
    CASE t \in {"host", "Host"} -> "HOST"
      [] t \in {"user", "User"} -> "USER"
      [] t \in {"agent", "Agent"} -> "AGENT"
      [] t \in {"content", "Content"} -> "CONTENT"
      [] t \in {"type", "Type"} -> "TYPE"
      [] t \in {"signature", "Signature"} -> "SIGNATURE"
      [] t \in {"digest", "Digest"} -> "DIGEST"
      [] t = "(request-target)" -> "(REQUEST-TARGET)"
      [] OTHER -> t

\* s.upper()
Upper(s) == [i \in 1..Len(s) |-> UpperToken(s[i])]

(***************************************************************************)
(* base64.b64encode / b64decode over byte strings (sequences of 0..255).   *)
(***************************************************************************)
B64Alphabet ==
    <<
       "A", "B", "C", "D", "E", "F", "G", "H", "I", "J", "K", "L", "M", "N", "O", "P",
       "Q", "R", "S", "T", "U", "V", "W", "X", "Y", "Z", "a", "b", "c", "d", "e", "f",
       "g", "h", "i", "j", "k", "l", "m", "n", "o", "p", "q", "r", "s", "t", "u", "v",
       "w", "x", "y", "z", "0", "1", "2", "3", "4", "5", "6", "7", "8", "9", "+", "/"
    >>

B64Char(n) == B64Alphabet[n + 1]

B64Index(c) == CHOOSE n \in 0..63 : B64Alphabet[n + 1] = c

RECURSIVE b64encode(_)
b64encode(bytes) ==
    IF Len(bytes) = 0 THEN <<>>
    ELSE IF Len(bytes) = 1 THEN
        <<B64Char(bytes[1] \div 4), B64Char((bytes[1] % 4) * 16), "=", "=">>
    ELSE IF Len(bytes) = 2 THEN
        <<B64Char(bytes[1] \div 4),
          B64Char((bytes[1] % 4) * 16 + bytes[2] \div 16),
          B64Char((bytes[2] % 16) * 4), "=">>
    ELSE
        <<B64Char(bytes[1] \div 4),
          B64Char((bytes[1] % 4) * 16 + bytes[2] \div 16),
          B64Char((bytes[2] % 16) * 4 + bytes[3] \div 64),
          B64Char(bytes[3] % 64)>> \o b64encode(SubSeq(bytes, 4, Len(bytes)))

RECURSIVE b64decode(_)
\* Inverse of b64encode on well-formed base64 text.
b64decode(text) ==
    IF Len(text) < 4 THEN <<>>
    ELSE
        LET a == B64Index(text[1])
            b == B64Index(text[2])
            rest == b64decode(SubSeq(text, 5, Len(text)))
        IN  IF text[3] = "=" THEN <<a * 4 + b \div 16>>
            ELSE LET c == B64Index(text[3])
                 IN  IF text[4] = "=" THEN
                         <<a * 4 + b \div 16, (b % 16) * 16 + c \div 4>>
                     ELSE
                         <<a * 4 + b \div 16, (b % 16) * 16 + c \div 4,
                           (c % 4) * 64 + B64Index(text[4])>> \o rest

(***************************************************************************)
(* Collaborators of Inbox.post.                                            *)
(***************************************************************************)
\* Request bodies (raw bytes), named; "b1x" is "b1" with one bit flipped.
Bodies == {"b1", "b1x", "b2", "b3", "b0", "bad"}

\* hashes.Hash(hashes.SHA256()) of a body: a collision-free stand-in, cut to
\* two bytes.
Sha256(body) ==
    CASE body = "b1" -> <<227, 176>>
      [] body = "b1x" -> <<196, 66>>
      [] body = "b2" -> <<152, 252>>
      [] body = "b3" -> <<28, 20>>
      [] body = "b0" -> <<154, 251>>
      [] OTHER -> <<244, 200>>

\* json.loads(request.body): the document, or ValueError on a body that is
\* not JSON.
JsonIsValid(body) == body # "bad"

JsonLoads(body) ==
    CASE body = "b1" -> [actor |-> "a1", content |-> "hello"]
      [] body = "b1x" -> [actor |-> "a1", content |-> "hellp"]
      [] body = "b2" -> [actor |-> "a2", content |-> "hello"]
      [] body = "b3" -> [actor |-> "a3", content |-> "hello"]
      [] OTHER -> [content |-> "hello"]

\* core.ld.canonicalise: an opaque pure function, deterministic and
\* idempotent; it keeps the fields of the document and pins the context.
canonicalise(document) ==
    [k \in (DOMAIN document) \cup {"@context"} |->
        IF k = "@context" THEN "https://www.w3.org/ns/activitystreams"
        ELSE document[k]]

\* The identities the resolver knows, with their public keys.
KnownActors == {"a1", "a2"}

ActorKey(actor) == IF actor = "a1" THEN "k1" ELSE "k2"

\* Identity.by_actor_uri: the identity of a known actor; fails for any other.
by_actor_uri_found(actor) == actor \in KnownActors

by_actor_uri(actor) == [actor_uri |-> actor, public_key |-> ActorKey(actor)]

\* The signature bytes the sender computed with the private half of
\* sender.key over sender.message, and the same with one byte flipped.
SignatureBytes == <<115, 48>>

FlippedSignatureBytes == <<115, 49>>

\* identity.verify_signature(signature, signed_string): base64-decodes the
\* signature and verifies it, as RSA-SHA256, against the identity's public
\* key: true exactly for the bytes made with that key over that message.
verify_signature(identity, signature, signed_string, sender) ==
    /\ b64decode(signature) = SignatureBytes
    /\ identity.public_key = sender.key
    /\ signed_string = sender.message

(***************************************************************************)
(* The request as Django presents it.                                      *)
(***************************************************************************)
\* The WSGI environ key of a header received on the wire: upper-cased, '-'
\* replaced by '_', prefixed HTTP_ except for Content-Type.
MetaKey(name) ==
    LET u == [i \in 1..Len(name) |->
                 IF name[i] = "-" THEN "_" ELSE UpperToken(name[i])]
    IN  IF u = <<"CONTENT", "_", "TYPE">> THEN u ELSE <<"HTTP", "_">> \o u

\* request.META
META(req) ==
    [k \in {MetaKey(n) : n \in DOMAIN req.headers} |->
        req.headers[CHOOSE n \in DOMAIN req.headers : MetaKey(n) = k]]

\* request.path: the path of the request target, without its query string.
RequestPath(req) == req.path

\* request.get_full_path(): the path with "?" and the query string, if any.
RequestFullPath(req) ==
    IF req.query = <<>> THEN req.path ELSE req.path \o <<"?">> \o req.query

(***************************************************************************)
(* Inbox.post                                                              *)
(***************************************************************************)
\* What one run of the view produced: the HTTP response (status 500 with
\* the exception's name when an exception escaped the view), the lines it
\* printed, the collaborators it invoked, in order, and the signature
\* payload it built, if it got that far.
Outcome(status, printed, exception, calls, built, signed_string) ==
    [status |-> status,
     content |-> IF status = 200 THEN "{\"status\": \"OK\"}" ELSE "",
     printed |-> printed,
     exception |-> exception,
     calls |-> calls,
     built |-> built,
     signed_string |-> signed_string]

\* return HttpResponseBadRequest()
HttpResponseBadRequest(printed, calls, built, signed_string) ==
    Outcome(400, printed, "None", calls, built, signed_string)

\* return JsonResponse({"status": "OK"})
JsonResponseOK(printed, calls, built, signed_string) ==
    Outcome(200, printed, "None", calls, built, signed_string)

\* An exception nothing in the view catches.
Unhandled(exception, printed, calls, built, signed_string) ==
    Outcome(500, printed, exception, calls, built, signed_string)

\* The META keys of the signature and digest headers.
HTTP_SIGNATURE == <<"HTTP", "_", "SIGNATURE">>

HTTP_DIGEST == <<"HTTP", "_", "DIGEST">>

\* Lines 144-145: the items of the header, and whether each unpacks into
\* (name, value).
SignatureItems(header) == Split(header, ",")

ItemsUnpack(items) ==
    \A i \in 1..Len(items) : Len(SplitOnce(items[i], "=")) = 2

\* Lines 143-147: the dict signature_details; a repeated name keeps its last
\* value.
SignatureDetails(items) ==
    LET pairs == [i \in 1..Len(items) |-> SplitOnce(items[i], "=")]
        names == {pairs[i][1] : i \in 1..Len(items)}
        last(n) == CHOOSE i \in 1..Len(items) :
                      /\ pairs[i][1] = n
                      /\ \A j \in (i + 1)..Len(items) : pairs[j][1] # n
    IN  [n \in names |-> Strip(pairs[last(n)][2], "\"")]

\* Line 149: the accepted algorithm.
AlgorithmAccepted(algorithm) == algorithm = <<"rsa-sha256">>

\* Lines 154-158: the digest header the body should carry.
DigestHeader(body) == <<"SHA-256", "=">> \o b64encode(Sha256(body))

\* Two slips in the digest check: one that never rejects, and one that
\* also rejects a request without digest header.
DigestRejected_Never(meta, body) == FALSE

DigestRejected_OrAbsent(meta, body) ==
    \/ HTTP_DIGEST \notin DOMAIN meta
    \/ meta[HTTP_DIGEST] # DigestHeader(body)

\* Lines 153 and 159: a digest header is present and differs.
DigestRejected(meta, body) ==
    /\ HTTP_DIGEST \in DOMAIN meta
    /\ meta[HTTP_DIGEST] # DigestHeader(body)

\* headers[header_name] = value on a dict kept as a sequence of (name,
\* value) pairs in insertion order: a repeated name keeps its place and
\* takes the new value.
DictSet(headers, name, value) ==
    IF \E i \in 1..Len(headers) : headers[i][1] = name
    THEN [i \in 1..Len(headers) |->
             IF headers[i][1] = name THEN <<name, value>> ELSE headers[i]]
    ELSE Append(headers, <<name, value>>)

\* Lines 165-170: the META key read for a covered header name.
HeaderMetaKey(header_name) ==
    IF header_name = <<"content", "-", "type">>
    THEN <<"CONTENT", "_", "TYPE">>
    ELSE <<"HTTP", "_">> \o Upper(header_name)

\* Line 166: the value of the (request-target) line.
RequestTarget(req) == <<"post", " ">> \o RequestPath(req)

RECURSIVE SignaturePayload(_, _, _, _)
\* Lines 163-171: the dict headers, or KeyError at the first covered header
\* whose key is not in request.META.
SignaturePayload(names, req, meta, headers) ==
    IF names = <<>> THEN [ok |-> TRUE, headers |-> headers]
    ELSE
        LET header_name == Head(names)
        IN  IF header_name = <<"(request-target)">> THEN
                SignaturePayload(Tail(names), req, meta,
                    DictSet(headers, header_name, RequestTarget(req)))
            ELSE IF HeaderMetaKey(header_name) \notin DOMAIN meta THEN
                [ok |-> FALSE, headers |-> headers]
            ELSE
                SignaturePayload(Tail(names), req, meta,
                    DictSet(headers, header_name,
                            meta[HeaderMetaKey(header_name)]))

\* Line 172: "\n".join(f"{name}: {value}" for name, value in headers.items())
SignedString(headers) ==
    Join([i \in 1..Len(headers) |->
             headers[i][1] \o <<":", " ">> \o headers[i][2]], <<"\n">>)

\* A slip in lines 178-180: the result of the verification is not looked at.
SignatureAnswer_Unchecked(verified, calls, signed_string) ==
    JsonResponseOK(<<"document">>, calls, TRUE, signed_string)

\* Lines 178-181: the answer, given what verify_signature returned.
SignatureAnswer(verified, calls, signed_string) ==
    IF ~verified THEN
        HttpResponseBadRequest(<<"document", "Bad signature">>, calls, TRUE,
                               signed_string)
    ELSE
        JsonResponseOK(<<"document">>, calls, TRUE, signed_string)

\* Lines 173-181: load the document, find the identity of its actor, verify.
VerifyStage(req, signature_details, signed_string, calls0) ==
    LET c1 == Append(calls0, "json.loads")
        c2 == Append(c1, "canonicalise")
        c3 == Append(c2, "by_actor_uri")
        c4 == Append(c3, "verify_signature")
        document == canonicalise(JsonLoads(req.body))
        identity == by_actor_uri(document.actor)
    IN  IF ~JsonIsValid(req.body) THEN
            Unhandled("JSONDecodeError", <<>>, c1, TRUE, signed_string)
        ELSE IF "actor" \notin DOMAIN document THEN
            Unhandled("KeyError", <<"document">>, c2, TRUE, signed_string)
        ELSE IF ~by_actor_uri_found(document.actor) THEN
            Unhandled("DoesNotExist", <<"document">>, c3, TRUE, signed_string)
        ELSE IF <<"signature">> \notin DOMAIN signature_details THEN
            Unhandled("KeyError", <<"document">>, c3, TRUE, signed_string)
        ELSE
            SignatureAnswer(
                verify_signature(identity, signature_details[<<"signature">>],
                                 signed_string, req.sender),
                c4, signed_string)

\* Lines 162-172, then the rest.
PayloadStage(req, meta, signature_details, calls0) ==
    IF <<"headers">> \notin DOMAIN signature_details THEN
        Unhandled("KeyError", <<>>, calls0, FALSE, <<>>)
    ELSE
        LET payload == SignaturePayload(
                           SplitWhitespace(signature_details[<<"headers">>]),
                           req, meta, <<>>)
        IN  IF ~payload.ok THEN
                Unhandled("KeyError", <<>>, calls0, FALSE, <<>>)
            ELSE
                VerifyStage(req, signature_details,
                            SignedString(payload.headers), calls0)

\* Lines 152-161, then the rest.
DigestStage(req, meta, signature_details) ==
    LET calls0 == IF HTTP_DIGEST \in DOMAIN meta
                  THEN <<"hashes.SHA256">> ELSE <<>>
    IN  IF DigestRejected(meta, req.body) THEN
            HttpResponseBadRequest(<<"Bad digest">>, calls0, FALSE, <<>>)
        ELSE
            PayloadStage(req, meta, signature_details, calls0)

\* Inbox.post, lines 138-181.
InboxPost(req) ==
    LET meta == META(req)
        items == SignatureItems(meta[HTTP_SIGNATURE])
        signature_details == SignatureDetails(items)
    IN  IF HTTP_SIGNATURE \notin DOMAIN meta THEN
            HttpResponseBadRequest(<<"No signature">>, <<>>, FALSE, <<>>)
        ELSE IF ~ItemsUnpack(items) THEN
            Unhandled("ValueError", <<>>, <<>>, FALSE, <<>>)
        ELSE IF <<"algorithm">> \notin DOMAIN signature_details THEN
            Unhandled("KeyError", <<>>, <<>>, FALSE, <<>>)
        ELSE IF ~AlgorithmAccepted(signature_details[<<"algorithm">>]) THEN
            HttpResponseBadRequest(<<"Unknown algorithm">>, <<>>, FALSE, <<>>)
        ELSE
            DigestStage(req, meta, signature_details)

(***************************************************************************)
(* The requests the inbox receives.  A remote sender, holding the private  *)
(* key of actor a1, builds a signature header over a list of covered       *)
(* headers and signs the signing string of HTTP Signatures; the request    *)
(* then reaches the inbox as sent, or with a part of it missing, malformed *)
(* or changed on the way.                                                  *)
(***************************************************************************)
CoveredNames ==
    {<<"(request-target)">>, <<"host">>, <<"Host">>,
     <<"user", "-", "agent">>, <<"content", "-", "type">>}

CoveredLists == UNION {[1..n -> CoveredNames] : n \in 0..MaxCovered}

InboxPath == <<"/@alice/inbox/">>

Queries == {<<>>, <<"page", "=", "1">>}

\* The value the sender sent for a header, whatever the casing of its name.
SentValue(name) ==
    CASE Upper(name) = <<"HOST">> -> <<"example.com">>
      [] Upper(name) = <<"USER", "-", "AGENT">> -> <<"takahe">>
      [] OTHER -> <<"application/activity+json">>

\* The string the sender signed: one line per covered name, in order, the
\* request target with its query string.
SenderSigningString(covered, query) ==
    Join([i \in 1..Len(covered) |->
             covered[i] \o <<":", " ">> \o
             (IF covered[i] = <<"(request-target)">>
              THEN <<"post", " ">> \o
                   RequestFullPath([path |-> InboxPath, query |-> query])
              ELSE SentValue(covered[i]))], <<"\n">>)

\* One key="value" item of a signature header.
Item(name, value) == name \o <<"=", "\"">> \o value \o <<"\"">>

\* The shapes of signature header the model draws from: the well-formed
\* header over any covered list, with the genuine signature or a flipped
\* byte, and the same with one departure: a keyId holding a comma, an
\* unknown key whose value holds '=', a missing key, an item without '=';
\* each of them also declaring another algorithm.
HeaderShapes ==
    {h \in [keyId : {"plain", "comma", "absent"},
            algorithm : {"rsa-sha256", "hs2019", "absent"},
            headers : {"present", "absent"},
            covered : CoveredLists,
            signature : {"genuine", "flipped", "absent"},
            extra : {"none", "unknown", "noequals"}] :
        LET departures ==
                (IF h.keyId = "plain" THEN 0 ELSE 1)
                + (IF h.algorithm = "absent" THEN 1 ELSE 0)
                + (IF h.headers = "present" THEN 0 ELSE 1)
                + (IF h.signature = "absent" THEN 1 ELSE 0)
                + (IF h.extra = "none" THEN 0 ELSE 1)
        IN  /\ departures <= 1
            /\ (departures = 1 \/ h.algorithm = "hs2019")
                  => h.signature # "flipped"
            /\ h.headers = "absent" => h.covered = <<>>}

\* The keyId and the signature bytes the sender put in a header.
ShapeKeyId(h) ==
    IF h.keyId = "comma" THEN <<"https://remote/a1?x", ",", "y">>
    ELSE <<"https://remote/a1#main-key">>

ShapeSignature(h) ==
    IF h.signature = "flipped" THEN FlippedSignatureBytes ELSE SignatureBytes

\* The text of the signature header of a shape.
SignatureHeader(h) ==
    LET keyId ==
            IF h.keyId = "absent" THEN <<>>
            ELSE <<Item(<<"keyId">>, ShapeKeyId(h))>>
        algorithm ==
            IF h.algorithm = "absent" THEN <<>>
            ELSE <<Item(<<"algorithm">>, <<h.algorithm>>)>>
        headers ==
            IF h.headers = "absent" THEN <<>>
            ELSE <<Item(<<"headers">>, Join(h.covered, <<" ">>))>>
        signature ==
            IF h.signature = "absent" THEN <<>>
            ELSE <<Item(<<"signature">>, b64encode(ShapeSignature(h)))>>
        extra ==
            CASE h.extra = "unknown" -> <<Item(<<"created">>, <<"t", "=", "0">>)>>
              [] h.extra = "noequals" -> <<<<"garbage">>>>
              [] OTHER -> <<>>
    IN  Join(keyId \o algorithm \o headers \o signature \o extra, <<",">>)

\* The body a digest header was computed over when it is not the body
\* received: the body before a bit of it was flipped.
BodyBefore(body) == IF body = "b1" THEN "b1x" ELSE "b1"

\* A finite function from a set of (key, value) pairs with distinct keys.
Mapping(pairs) ==
    [k \in {p[1] : p \in pairs} |-> (CHOOSE p \in pairs : p[1] = k)[2]]

\* The request received: its headers under the names sent, its target, its
\* body, and what the sender put in the signature header and made the
\* signature bytes with and over.
MakeRequest(signature, digest, host, shape, query, body) ==
    [headers |-> Mapping(
         {<<<<"Signature">>, v>> : v \in signature}
         \cup {<<<<"Digest">>, v>> : v \in digest}
         \cup {<<<<"Host">>, SentValue(<<"host">>)>> : x \in host}
         \cup {<<<<"User", "-", "Agent">>, SentValue(<<"user", "-", "agent">>)>>,
               <<<<"Content", "-", "Type">>,
                 SentValue(<<"content", "-", "type">>)>>}),
     path |-> InboxPath,
     query |-> query,
     body |-> body,
     sender |-> [key |-> "k1",
                 shape |-> shape,
                 message |-> SenderSigningString(shape.covered, query)]]

\* The shape of a request sent without a signature header.
NoHeader ==
    [keyId |-> "absent", algorithm |-> "absent", headers |-> "absent",
     covered |-> <<>>, signature |-> "absent", extra |-> "none"]

\* The digest header received: none, the digest of the body received, or
\* the digest of the body before a bit of it was flipped.
DigestChoices(body) ==
    {{}, {DigestHeader(body)}, {DigestHeader(BodyBefore(body))}}

\* Whether the Host header sent is still on the request received.
HostChoices == {{}, {"sent"}}

(***************************************************************************)
(* The inbox as a state machine: a request arrives, the view answers it.   *)
(***************************************************************************)
NoResponse == Outcome(0, <<>>, "None", <<>>, FALSE, <<>>)

NoMembers == [i \in {} |-> {}]

NoSession == [u \in {} |-> {}]

NoActivation == [status |-> 0]

Init ==
    /\ \E b \in Bodies, q \in Queries, host \in HostChoices :
         \E d \in DigestChoices(b) :
            \/ \E h \in HeaderShapes :
                  request = MakeRequest({SignatureHeader(h)}, d, host,
                                        h, q, b)
            \/ request = MakeRequest({}, d, host, NoHeader, q, b)
    /\ response = NoResponse
    /\ members = NoMembers
    /\ session = NoSession
    /\ activation = NoActivation

Post ==
    /\ response = NoResponse
    /\ response' = InboxPost(request)
    /\ UNCHANGED <<request, members, session, activation>>

Next == Post

Spec == Init /\ [][Next]_vars

(***************************************************************************)
(* ActivateIdentity.get: a logged-in user makes one of the identities the  *)
(* active identity of their session.                                       *)
(***************************************************************************)
Users == {"u1", "u2"}

Handles == {"alice@example.com", "bob@example.com", "ghost@example.com"}

\* users.shortcuts.by_handle_or_404: the identity of a handle, or Http404.
HandleKnown(handle) == handle \in {"alice@example.com", "bob@example.com"}

by_handle_or_404(handle) ==
    [id |-> IF handle = "alice@example.com" THEN 1 ELSE 2, handle |-> handle]

\* The values of the next query parameter; <<>> when it is not given.
NextParameters ==
    {<<>>, <<"/home/">>, <<"//evil.example/">>,
     <<"https", ":", "//evil.example/">>}

\* Lines 56-58: the next URL, with "/" for a missing one or one holding ':'.
NextUrl(parameter) ==
    LET next == IF parameter = <<>> THEN <<"/">> ELSE parameter
    IN  IF \E i \in 1..Len(next) : next[i] = ":" THEN <<"/">> ELSE next

\* Line 59: redirect("/")
RedirectTarget(next) == <<"/">>

\* A slip in line 52: any logged-in user may activate any identity.
UserIsAmong_Anyone(user, identity_users) == TRUE

\* Line 52: identity.users.filter(pk=request.user.pk).exists()
UserIsAmong(user, identity_users) == user \in identity_users

\* The answer of the view, with the request it answers and the session as
\* it was before.
Activation(status, location, user, handle, parameter) ==
    [status |-> status, location |-> location, user |-> user,
     handle |-> handle, next |-> parameter, before |-> session[user]]

\* ActivateIdentity.get, lines 50-59.
ActivateIdentityGet(user, handle, parameter) ==
    LET identity == by_handle_or_404(handle)
    IN  IF ~HandleKnown(handle) THEN
            /\ activation' = Activation(404, <<>>, user, handle, parameter)
            /\ UNCHANGED session
        ELSE IF ~UserIsAmong(user, members[identity.id]) THEN
            /\ activation' = Activation(404, <<>>, user, handle, parameter)
            /\ UNCHANGED session
        ELSE
            /\ session' = [session EXCEPT
                              ![user] = ("identity_id" :> identity.id) @@ @]
            /\ activation' = Activation(302, RedirectTarget(NextUrl(parameter)),
                                        user, handle, parameter)

InitActivate ==
    /\ request = MakeRequest({}, {}, {}, NoHeader, <<>>, "b1")
    /\ response = NoResponse
    /\ members \in [{1, 2} -> SUBSET Users]
    /\ session = [u \in Users |-> [k \in {} |-> 0]]
    /\ activation = NoActivation

Activate ==
    /\ \E user \in Users, handle \in Handles, parameter \in NextParameters :
          ActivateIdentityGet(user, handle, parameter)
    /\ UNCHANGED <<request, response, members>>

NextActivate == Activate

SpecActivate == InitActivate /\ [][NextActivate]_vars

(***************************************************************************)
(* Vocabulary of the properties: the request in hand as the view reads it. *)
(***************************************************************************)
Answered == response # NoResponse

Meta == META(request)

HasSignature == HTTP_SIGNATURE \in DOMAIN Meta

HasDigest == HTTP_DIGEST \in DOMAIN Meta

Items == SignatureItems(Meta[HTTP_SIGNATURE])

\* The view got a signature_details dict out of the header.
Parsed == HasSignature /\ ItemsUnpack(Items)

Details == SignatureDetails(Items)

Has(name) == Parsed /\ name \in DOMAIN Details

\* The covered header names, as the view reads them.
Covered == SplitWhitespace(Details[<<"headers">>])

Invoked(callee) ==
    \E i \in 1..Len(response.calls) : response.calls[i] = callee

\* The lines of a text.
Lines(text) == IF text = <<>> THEN <<>> ELSE Split(text, "\n")

\* The request carries a header under some letter casing of the name.
Carries(name) == \E n \in DOMAIN request.headers : Upper(n) = Upper(name)

CarriedValue(name) ==
    request.headers[CHOOSE n \in DOMAIN request.headers : Upper(n) = Upper(name)]

\* The header the sender wrote is well formed: the four required keys, each
\* item key="value".
WellFormedHeader ==
    /\ HasSignature
    /\ request.sender.shape.keyId # "absent"
    /\ request.sender.shape.algorithm # "absent"
    /\ request.sender.shape.headers # "absent"
    /\ request.sender.shape.signature # "absent"
    /\ request.sender.shape.extra # "noequals"

Trusted == response.status = 200

BadRequest(printed) ==
    response.status = 400 /\ response.content = "" /\ response.printed = printed

\* The request with another body, and with the digest header of its body.
WithBody(req, body) == [req EXCEPT !.body = body]

WithDigest(req) ==
    [req EXCEPT !.headers = (<<"Digest">> :> DigestHeader(req.body)) @@ req.headers]

(***************************************************************************)
(* C1.  The view answers 200 only to a request that passed every step: it  *)
(* carried a signature header that parsed, declaring rsa-sha256; its       *)
(* digest header, if any, is the digest of the body; every covered header  *)
(* was found and the payload built; the body parsed and its actor          *)
(* resolved; and verify_signature, invoked last on that payload with that  *)
(* actor's key, returned true.  No step was skipped.                       *)
(***************************************************************************)
C1_TrustedOnlyAfterEveryStep ==
    Trusted =>
        /\ Parsed
        /\ Has(<<"algorithm">>) /\ Details[<<"algorithm">>] = <<"rsa-sha256">>
        /\ HasDigest => Meta[HTTP_DIGEST] = DigestHeader(request.body)
        /\ Has(<<"headers">>)
        /\ \A i \in 1..Len(Covered) :
              Covered[i] = <<"(request-target)">>
              \/ HeaderMetaKey(Covered[i]) \in DOMAIN Meta
        /\ response.built
        /\ JsonIsValid(request.body)
        /\ "actor" \in DOMAIN JsonLoads(request.body)
        /\ JsonLoads(request.body).actor \in KnownActors
        /\ Has(<<"signature">>)
        /\ b64decode(Details[<<"signature">>]) = SignatureBytes
        /\ ActorKey(JsonLoads(request.body).actor) = request.sender.key
        /\ response.signed_string = request.sender.message
        /\ response.calls =
              (IF HasDigest THEN <<"hashes.SHA256">> ELSE <<>>)
              \o <<"json.loads", "canonicalise", "by_actor_uri",
                   "verify_signature">>
        /\ response.exception = "None"

\* A request with a digest header and two covered headers was trusted.
C1_Witness ==
    /\ Trusted
    /\ HasDigest
    /\ Len(Covered) = 2

(***************************************************************************)
(* C2.  Every failure ends the request in the same generic 400 response:   *)
(* a request that is not answered 200 is answered 400 with an empty body,  *)
(* and no exception escapes the view.                                      *)
(***************************************************************************)
C2_EveryFailureIsBadRequest ==
    (Answered /\ ~Trusted) =>
        /\ response.status = 400
        /\ response.content = ""
        /\ response.exception = "None"

(***************************************************************************)
(* C3.  A request whose well-formed signature header declares an algorithm *)
(* other than rsa-sha256 is rejected as an unknown algorithm, and neither  *)
(* by_actor_uri nor verify_signature is invoked in that run.               *)
(***************************************************************************)
C3_UnsupportedAlgorithmRejectedFirst ==
    (Answered /\ WellFormedHeader
     /\ request.sender.shape.algorithm # "rsa-sha256") =>
        /\ BadRequest(<<"Unknown algorithm">>)
        /\ ~Invoked("by_actor_uri")
        /\ ~Invoked("verify_signature")

(***************************************************************************)
(* C4.  Digest check.                                                      *)
(***************************************************************************)
\* The request carries a digest header that is not the digest of its body.
DigestDiffers ==
    HasDigest /\ Meta[HTTP_DIGEST] # DigestHeader(request.body)

\* Nothing after the digest check ran.
NothingAfterDigest ==
    /\ ~response.built
    /\ response.signed_string = <<>>
    /\ ~Invoked("json.loads")
    /\ ~Invoked("canonicalise")
    /\ ~Invoked("by_actor_uri")
    /\ ~Invoked("verify_signature")

\* C4 as stated: every request whose digest header is not the digest of its
\* body ends in the bad-digest rejection, with nothing after the digest
\* check run.
C4_DigestMismatchAlways ==
    (Answered /\ DigestDiffers) =>
        BadRequest(<<"Bad digest">>) /\ NothingAfterDigest

\* C4 as amended: for every request whose digest header is not the digest of
\* its body, the request is never trusted and nothing after the digest
\* check runs; the outcome is the bad-digest rejection unless an earlier
\* step (the missing-signature check, the parsing of the signature header,
\* the algorithm check) ended the request first.
C4_DigestMismatchStops ==
    (Answered /\ DigestDiffers) =>
        /\ ~Trusted
        /\ NothingAfterDigest
        /\ (Has(<<"algorithm">>) /\ Details[<<"algorithm">>] = <<"rsa-sha256">>)
              => BadRequest(<<"Bad digest">>)
        /\ ~(Has(<<"algorithm">>) /\ Details[<<"algorithm">>] = <<"rsa-sha256">>)
              => response.printed # <<"Bad digest">>

\* A well-signed request whose body had a bit flipped after the digest was
\* computed was rejected for its digest.
C4_Witness ==
    /\ DigestDiffers
    /\ request.body = "b1x"
    /\ request.sender.shape.signature = "genuine"
    /\ Len(request.sender.shape.covered) = 2
    /\ BadRequest(<<"Bad digest">>)

(***************************************************************************)
(* C5.  The digest is optional and the signature covers only the covered   *)
(* headers.                                                                *)
(***************************************************************************)
\* The answer to a request without digest header is the answer to the same
\* request carrying the digest of its body.
AbsentDigestIsNoError ==
    (Answered /\ ~HasDigest) =>
        /\ response.status = InboxPost(WithDigest(request)).status
        /\ response.printed = InboxPost(WithDigest(request)).printed
        /\ response.printed # <<"Bad digest">>

\* C5 as stated: a trusted request without digest header stays trusted with
\* any other body in place of its own.
C5_AnyOtherBodyStillTrusted ==
    /\ AbsentDigestIsNoError
    /\ (Trusted /\ ~HasDigest) =>
          \A b \in Bodies \ {request.body} :
              InboxPost(WithBody(request, b)).status = 200

\* C5 as amended: a trusted request without digest header stays trusted
\* with any other body in place of its own that parses as a document naming
\* the same actor; the absence of a digest header alone never causes a
\* rejection.
C5_OtherBodySameActorStillTrusted ==
    /\ AbsentDigestIsNoError
    /\ (Trusted /\ ~HasDigest) =>
          \A b \in Bodies \ {request.body} :
              (/\ JsonIsValid(b)
               /\ "actor" \in DOMAIN JsonLoads(b)
               /\ JsonLoads(b).actor = JsonLoads(request.body).actor)
              => InboxPost(WithBody(request, b)).status = 200

\* A request without digest header was trusted, and another body naming the
\* same actor exists.
C5_Witness ==
    /\ Trusted
    /\ ~HasDigest
    /\ request.body = "b1"
    /\ Len(Covered) = 2

(***************************************************************************)
(* C6.  The signing string has exactly one line per element of the covered *)
(* header list, in the order of the list, line i being "<name i>: <value>",*)
(* the lines joined by a newline with none trailing.                       *)
(***************************************************************************)
StartsWith(text, prefix) ==
    Len(text) >= Len(prefix) /\ SubSeq(text, 1, Len(prefix)) = prefix

C6_OneLinePerCoveredHeader ==
    (Answered /\ response.built) =>
        LET lines == Lines(response.signed_string)
        IN  /\ Len(lines) = Len(Covered)
            /\ \A i \in 1..Len(Covered) :
                  i <= Len(lines)
                  /\ StartsWith(lines[i], Covered[i] \o <<":", " ">>)

(***************************************************************************)
(* C7.  The line of the (request-target) pseudo-header is "post <path>"    *)
(* with the query string of the request target in the path, so that two    *)
(* requests differing only in their query string get different signing     *)
(* strings.                                                                *)
(***************************************************************************)
C7_RequestTargetHasQuery ==
    (Answered /\ response.built
     /\ \E i \in 1..Len(Covered) : Covered[i] = <<"(request-target)">>) =>
        /\ \E i \in 1..Len(Lines(response.signed_string)) :
              Lines(response.signed_string)[i] =
                  <<"(request-target)", ":", " ", "post", " ">>
                  \o RequestFullPath(request)
        /\ \A q \in Queries \ {request.query} :
              InboxPost([request EXCEPT !.query = q]).signed_string
                  # response.signed_string

(***************************************************************************)
(* C8.  A covered header other than (request-target) is looked up among    *)
(* the headers received whatever the casing of its name: when the request  *)
(* carries every covered header the payload is built with their raw        *)
(* values, and only when it lacks one is the request turned down for it.   *)
(***************************************************************************)
ReachedPayload ==
    /\ Has(<<"algorithm">>) /\ Details[<<"algorithm">>] = <<"rsa-sha256">>
    /\ ~DigestDiffers
    /\ Has(<<"headers">>)

C8_CaseInsensitiveLookup ==
    (Answered /\ ReachedPayload) =>
        LET names == {Covered[i] : i \in 1..Len(Covered)}
                        \ {<<"(request-target)">>}
        IN  IF \A n \in names : Carries(n)
            THEN /\ response.built
                 /\ \A n \in names :
                       \E i \in 1..Len(Lines(response.signed_string)) :
                          Lines(response.signed_string)[i] =
                              n \o <<":", " ">> \o CarriedValue(n)
            ELSE ~Trusted /\ ~response.built

(***************************************************************************)
(* C9.  Parsing recovers, from every well-formed signature header, the     *)
(* keyId, the algorithm, the covered header list in order and the          *)
(* signature bytes the sender wrote, also when a quoted value holds a      *)
(* comma or an '='.                                                        *)
(***************************************************************************)
C9_ParseRoundTrip ==
    (Answered /\ WellFormedHeader) =>
        /\ Parsed
        /\ Has(<<"keyId">>)
        /\ Details[<<"keyId">>] = ShapeKeyId(request.sender.shape)
        /\ Has(<<"algorithm">>)
        /\ Details[<<"algorithm">>] = <<request.sender.shape.algorithm>>
        /\ Has(<<"headers">>)
        /\ Covered = request.sender.shape.covered
        /\ Has(<<"signature">>)
        /\ b64decode(Details[<<"signature">>])
              = ShapeSignature(request.sender.shape)

====
